---------------------------- MODULE Spec2Model ----------------------------
(***************************************************************************)
(* z157: parser of the field-filter mini-language and the tree built from  *)
(* it (src/src/parser.rs, src/src/tree.rs, src/src/str_range.rs).          *)
(*                                                                         *)
(* A text is a sequence of one-character strings.  A `&str` is a record    *)
(* [ptr, chars]: the address of its first byte and its contents, so that   *)
(* the pointer arithmetic of StrRange::new is computed, not assumed.       *)
(***************************************************************************)
EXTENDS Integers, Sequences, FiniteSets, TLC

VARIABLES buffer, base, owned, pc, fields, tree, stack, pushed, popped,
          detached, tree_buffer, unparsable, snapshot, last, sr

vars == <<buffer, base, owned, pc, fields, tree, stack, pushed, popped,
          detached, tree_buffer, unparsable, snapshot, last, sr>>

-----------------------------------------------------------------------------
(* Bounds of the model *)

\* longest input enumerated exhaustively over ShortChars
MaxStrLen == 4
\* largest number of fields of the generated well-formed inputs
MaxNodes == 4
\* longest path handed to Tree::index
MaxPathLen == 2
\* bytes of the memory in which the arguments of StrRange::new lie
MemLen == 5

-----------------------------------------------------------------------------
(* Characters *)

Upper == {"A","B","C","D","E","F","G","H","I","J","K","L","M",
          "N","O","P","Q","R","S","T","U","V","W","X","Y","Z"}
Lower == {"a","b","c","d","e","f","g","h","i","j","k","l","m",
          "n","o","p","q","r","s","t","u","v","w","x","y","z"}
Digit == {"0","1","2","3","4","5","6","7","8","9"}

\* the set handed to take_while in FieldName::parse
\* the set of take_while with '!' let in
FieldNameChars_with_bang == {"-", "_", "!"} \cup Upper \cup Lower \cup Digit

FieldNameChars == {"-", "_"} \cup Upper \cup Lower \cup Digit

None == [some |-> FALSE]
Some(x) == [some |-> TRUE, value |-> x]

-----------------------------------------------------------------------------
(* &str values and slicing *)

\* the &str that borrows the whole text `chars` stored at address `ptr`
Str(ptr, chars) == [ptr |-> ptr, chars |-> chars]

\* &s[from..to], byte offsets, 0-based, `to` exclusive
Slice(s, from, to) ==
    [ptr |-> s.ptr + from, chars |-> SubSeq(s.chars, from + 1, to)]

StrLen(s) == Len(s.chars)

-----------------------------------------------------------------------------
(* The winnow parsers of parser.rs.  A parser maps the remaining input to  *)
(* [ok |-> FALSE] (a Backtrack error, input restored by the caller) or to  *)
(* [ok |-> TRUE, rest |-> remaining input, out |-> value].                 *)

Backtrack == [ok |-> FALSE]
Parsed(rest, out) == [ok |-> TRUE, rest |-> rest, out |-> out]

RECURSIVE RunLen(_, _)
\* number of leading characters of chars[i..] that are in FieldNameChars
RunLen(chars, i) ==
    IF i <= Len(chars) /\ chars[i] \in FieldNameChars
    THEN 1 + RunLen(chars, i + 1)
    ELSE 0

\* take_while(0.., ..): an empty run is accepted
take_n_from_zero(input, n) ==
    Parsed(Slice(input, n, StrLen(input)), Slice(input, 0, n))

\* the first n characters as the output, the rest as the remaining input;
\* take_while(1.., ..) fails on an empty run
take_n(input, n) ==
    IF n < 1 THEN Backtrack
    ELSE Parsed(Slice(input, n, StrLen(input)), Slice(input, 0, n))

\* take_while(1.., set): the longest run, which must not be empty
take_while_1(input) == take_n(input, RunLen(input.chars, 1))

\* a one-character literal parser such as '(' or ','
literal(c, input) ==
    IF StrLen(input) >= 1 /\ input.chars[1] = c
    THEN Parsed(Slice(input, 1, StrLen(input)), c)
    ELSE Backtrack

FieldName_parse(input) == take_while_1(input)

MkFieldName(name) ==
    [kind |-> "FieldName", field_name |-> name, fields_struct |-> <<>>]
MkFieldsSubstruct(name, items) ==
    [kind |-> "FieldsSubstruct", field_name |-> name, fields_struct |-> items]

RECURSIVE FieldsStruct_parse(_)
RECURSIVE separated_rest(_, _)

FieldsSubstruct_parse(input) ==
    LET with_struct(field_name, fs) ==
            IF ~fs.ok THEN Backtrack
            ELSE Parsed(fs.rest, MkFieldsSubstruct(field_name.out, fs.out))
        with_name(field_name) ==
            IF ~field_name.ok THEN Backtrack
            ELSE with_struct(field_name, FieldsStruct_parse(field_name.rest))
    IN  with_name(FieldName_parse(input))

\* alt((FieldsSubstruct, FieldName)): ordered choice, the input is restored
\* before the second alternative is tried
Field_parse(input) ==
    LET second(n) ==
            IF n.ok THEN Parsed(n.rest, MkFieldName(n.out)) ELSE Backtrack
        first(sub) ==
            IF sub.ok THEN sub ELSE second(FieldName_parse(input))
    IN  first(FieldsSubstruct_parse(input))

\* the loop of separated(1.., Field::parse, ','): a separator and an item,
\* or stop with the input as it was before the separator
separated_rest(input, acc) ==
    LET item(f) ==
            IF ~f.ok THEN Parsed(input, acc)
            ELSE separated_rest(f.rest, Append(acc, f.out))
        separator(sep) ==
            IF ~sep.ok THEN Parsed(input, acc) ELSE item(Field_parse(sep.rest))
    IN  separator(literal(",", input))

\* separated(1.., ..) with only its first item kept
FieldItems_parse_keeps_first(input) ==
    LET keep(f, r) == Parsed(r.rest, <<f.out>>)
        first(f) ==
            IF ~f.ok THEN Backtrack
            ELSE keep(f, separated_rest(f.rest, <<f.out>>))
    IN  first(Field_parse(input))

FieldItems_parse(input) ==
    LET first(f) ==
            IF ~f.ok THEN Backtrack ELSE separated_rest(f.rest, <<f.out>>)
    IN  first(Field_parse(input))

\* delimited('(', FieldItems::parse, ')')
FieldsStruct_parse(input) ==
    LET closed(items, close) ==
            IF ~close.ok THEN Backtrack ELSE Parsed(close.rest, items.out)
        body(items) ==
            IF ~items.ok THEN Backtrack
            ELSE closed(items, literal(")", items.rest))
        opened(open) ==
            IF ~open.ok THEN Backtrack ELSE body(FieldItems_parse(open.rest))
    IN  opened(literal("(", input))

\* the negation marker accepted by Fields::parse
NegationChar == "-"

\* Fields::parse that forgets the marker it consumed
Fields_parse_drops_negation(input) ==
    LET done(fs) ==
            IF ~fs.ok THEN Backtrack
            ELSE Parsed(fs.rest, [fields_struct |-> fs.out, negation |-> FALSE])
        marked(neg) ==
            done(FieldsStruct_parse(IF neg.ok THEN neg.rest ELSE input))
    IN  marked(literal(NegationChar, input))

Fields_parse(input) ==
    LET done(negation, fs) ==
            IF ~fs.ok THEN Backtrack
            ELSE Parsed(fs.rest, [fields_struct |-> fs.out, negation |-> negation])
        marked(neg) ==
            done(neg.ok, FieldsStruct_parse(IF neg.ok THEN neg.rest ELSE input))
    IN  marked(literal(NegationChar, input))

\* parse_next in place of parse: what follows the fields_struct is ignored
Fields_try_from_prefix(value) ==
    LET result(r) == IF r.ok THEN Some(r.out) ELSE None
    IN  result(Fields_parse(value))

\* Parser::parse: the parser, then end of input
Fields_try_from(value) ==
    LET result(r) == IF r.ok /\ StrLen(r.rest) = 0 THEN Some(r.out) ELSE None
    IN  result(Fields_parse(value))

-----------------------------------------------------------------------------
(* StrRange (str_range.rs) *)

\* the offsets at which the text of inner occurs in the text of outer
Occurrences(outer, inner) ==
    {k \in 0..(StrLen(outer) - StrLen(inner)) :
        SubSeq(outer.chars, k + 1, k + StrLen(inner)) = inner.chars}

\* StrRange::new by a search of the text of inner in outer
StrRange_new_by_text(outer, inner) ==
    IF Occurrences(outer, inner) = {} THEN None
    ELSE LET start == CHOOSE k \in Occurrences(outer, inner) :
                          \A j \in Occurrences(outer, inner) : k <= j
         IN  Some([start |-> start, end |-> start + StrLen(inner)])

\* StrRange::new with the lower comparison made strict
StrRange_new_strict(outer, inner) ==
    LET outer_begin == outer.ptr
        outer_end == outer_begin + StrLen(outer)
        inner_begin == inner.ptr
        inner_end == inner_begin + StrLen(inner)
    IN  IF inner_begin <= outer_begin \/ inner_end > outer_end
        THEN None
        ELSE LET start == inner_begin - outer_begin
             IN  Some([start |-> start, end |-> start + StrLen(inner)])

StrRange_new(outer, inner) ==
    LET outer_begin == outer.ptr
        outer_end == outer_begin + StrLen(outer)
        inner_begin == inner.ptr
        inner_end == inner_begin + StrLen(inner)
    IN  IF inner_begin < outer_begin \/ inner_end > outer_end
        THEN None
        ELSE LET start == inner_begin - outer_begin
             IN  Some([start |-> start, end |-> start + StrLen(inner)])

StrRange_is_empty(r) == ~(r.start < r.end)

\* &s[range] panics unless start <= end <= s.len()
InBounds(chars, r) == r.start <= r.end /\ r.end <= Len(chars)

\* &s[range]
StrIndex(chars, r) == SubSeq(chars, r.start + 1, r.end)

-----------------------------------------------------------------------------
(* ego_tree as used by tree.rs: an arena of nodes, a node id is its index; *)
(* each node has a value, its parent (0 for the root) and its children in  *)
(* insertion order.                                                        *)

Root == 1

Tree_new(value) == <<[value |-> value, parent |-> 0, children |-> <<>>]>>

\* NodeMut::prepend in place of append
Tree_prepend(t, v, value) ==
    Append([t EXCEPT ![v].children = <<Len(t) + 1>> \o @],
           [value |-> value, parent |-> v, children |-> <<>>])

\* NodeMut::append: a new last child of node v; its id is Len(t) + 1
Tree_append(t, v, value) ==
    Append([t EXCEPT ![v].children = Append(@, Len(t) + 1)],
           [value |-> value, parent |-> v, children |-> <<>>])

\* Tree::get_mut: the node of that id, when there is one
Tree_get(t, id) == IF id \in 1..Len(t) THEN Some(id) ELSE None

RECURSIVE append_all_push_every(_, _, _, _)
\* the loop body with every item pushed on the work stack, the plain
\* names too
append_all_push_every(t, st, v_id, items) ==
    IF items = <<>> THEN [tree |-> t, stack |-> st]
    ELSE LET w == Head(items)
             id == Len(t) + 1
             t2 == Tree_append(t, v_id, w.field_name)
             st2 == Append(st, [id |-> id, children |-> w.fields_struct])
         IN  append_all_push_every(t2, st2, v_id, Tail(items))

RECURSIVE append_all(_, _, _, _)
\* the body shared by the closure at tree.rs:201-215 and the loop at 220-232:
\* every item becomes a new last child of v_id, and an item with a
\* fields_struct is pushed on the work stack with the id of its node
append_all(t, st, v_id, items) ==
    IF items = <<>> THEN [tree |-> t, stack |-> st]
    ELSE LET w == Head(items)
             id == Len(t) + 1
             t2 == Tree_append(t, v_id, w.field_name)
             st2 == IF w.kind = "FieldsSubstruct"
                    THEN Append(st, [id |-> id, children |-> w.fields_struct])
                    ELSE st
         IN  append_all(t2, st2, v_id, Tail(items))

\* Tree::map with StrRange::new(s, field_name)
map_ranges(t, s) ==
    [i \in 1..Len(t) |-> [t[i] EXCEPT !.value = StrRange_new(s, t[i].value)]]

-----------------------------------------------------------------------------
(* Inputs *)

\* characters of the exhaustively enumerated short inputs
ShortChars == {"(", ")", ",", "-", "a", "!", " "}

ShortInputs == UNION {[1..k -> ShortChars] : k \in 0..MaxStrLen}

\* field names of the generated well-formed inputs
TreeNames == {<<"a">>, <<"b", "-">>}

RECURSIVE Forests(_)
\* the ordered forests of exactly n fields
Forests(n) ==
    IF n = 0 THEN {<<>>}
    ELSE UNION {
           {<<[name |-> nm, items |-> sub]>> \o rest :
               nm \in TreeNames, sub \in Forests(k - 1), rest \in Forests(n - k)}
           : k \in 1..n}

RECURSIVE UnparseItems(_)
UnparseItems(items) ==
    LET f == Head(items)
        one == f.name \o (IF f.items = <<>> THEN <<>>
                          ELSE <<"(">> \o UnparseItems(f.items) \o <<")">>)
    IN  IF Len(items) = 1 THEN one
        ELSE one \o <<",">> \o UnparseItems(Tail(items))

\* every forest of at most MaxNodes fields, and the small ones negated
TreeInputs ==
    UNION {{<<"(">> \o UnparseItems(f) \o <<")">> : f \in Forests(n)}
           : n \in 1..MaxNodes}
    \cup {<<"-", "(">> \o UnparseItems(f) \o <<")">> :
             f \in Forests(1) \cup Forests(2)}

\* the inputs of the documentation and the tests
Example_nested == <<"(","n","a","m","e",",","b","i","o","(","h","e","i","g","h","t","(","m","e","t","e","r","s",",","c","e","n","t","i","m","e","t","e","r","s",")",",","a","g","e",")",")">>
Example_index == <<"(","a","(","b",",","c","(","d",")",")",",","e",")">>
Example_negated == <<"-","(","b","i","o",")">>
Example_bang == <<"!","(","b","i","o",")">>
Example_leaves == <<"(","p","a","r","e","n","t","_","1","(","c","h","i","l","d","_","1",",","p","a","r","e","n","t","_","2","(","c","h","i","l","d","_","2",")",")",",","c","h","i","l","d","_","3",")">>

\* the names of the parser's test field_name, as the only field of an input
Test_valid_name ==
    <<"(","a","b","c","d","e","f","g","h","i","j","k","l","m","n","o",
      "p","q","r","s","t","u","v","w","x","y","z","A","B","C","D","E",
      "F","G","H","I","J","K","L","M","N","O","P","Q","R","S","T","U",
      "V","W","X","Y","Z","0","1","2","3","4","5","6","7","8","9","-",
      "_",")">>
Test_invalid_name == <<"(","a","b","c","/",")">>

Examples == {Example_nested, Example_index, Example_negated, Example_bang,
             Example_leaves, Test_valid_name, Test_invalid_name}

Inputs == ShortInputs \cup TreeInputs \cup Examples

\* the inputs that the tests hand over as owned Strings
Test_parent == <<"(","a","(","b",")",")">>
Test_root_excluded == <<"(","a",")">>
Test_field_walk == <<"(","a","(","b","(","c",")",")",")">>
Test_children == <<"(","a","(","b",",","c",")",")">>
Test_leaves == <<"(","a","(","b","(","c",")",",","d",")",",","e",")">>

\* owned inputs: those of the tests, and three that do not parse
OwnedInputs == {Test_parent, Test_root_excluded, Test_field_walk,
                Test_children, Test_leaves,
                <<>>, <<"(">>, <<"(","a",",",")">>}

\* addresses at which the buffer may be allocated
BaseAddrs == {16}

-----------------------------------------------------------------------------
(* State *)

NoFields == [fields_struct |-> <<>>, negation |-> FALSE]
NoTree == [tree |-> <<>>, negation |-> FALSE]
NoCall == [op |-> "none", field |-> 0, path |-> <<>>, some |-> FALSE,
           out |-> <<>>, names |-> <<>>, flag |-> FALSE]

NoSnapshot == [buffer |-> <<>>, negation |-> FALSE, walk |-> <<>>,
               names |-> <<>>, paths |-> <<>>]
NoStrRangeCall == [outer |-> [ptr |-> 0, chars |-> <<>>],
                   inner |-> [ptr |-> 0, chars |-> <<>>],
                   called |-> FALSE, result |-> None]

\* the &str the parser and the builder see
s == Str(base, buffer)

\* the argument of Tree::parse: Cow::Owned or Cow::Borrowed
cow == [owned |-> owned, chars |-> buffer]

Init ==
    /\ owned \in BOOLEAN
    /\ buffer \in (IF owned THEN OwnedInputs ELSE Inputs)
    /\ base \in BaseAddrs
    /\ pc = "start"
    /\ fields = NoFields
    /\ tree = <<>>
    /\ stack = <<>>
    /\ pushed = <<>>
    /\ popped = <<>>
    /\ detached = NoTree
    /\ tree_buffer = <<>>
    /\ unparsable = None
    /\ snapshot = NoSnapshot
    /\ last = NoCall
    /\ sr = NoStrRangeCall

-----------------------------------------------------------------------------
(* Tree::parse, step by step *)

\* tree.rs:186-191: the error of parse_detached borrows s
parse_detached_Unparsable(s_) ==
    [error |-> "parse error", buffer |-> [owned |-> FALSE, chars |-> s_.chars]]

\* tree.rs:142-145 with the error of parse_detached handed on as it is
inner_Unparsable_forwarded(u, cow_) == u

\* tree.rs:142-145: the borrowed buffer is dropped, the caller's Cow is
\* moved into the error
inner_Unparsable(u, cow_) == [error |-> u.error, buffer |-> cow_]

\* tree.rs:184-192 and 139-146: the parser; on an error parse returns
\* Unparsable with the caller's buffer
ParseFields ==
    /\ pc = "start"
    /\ LET r == Fields_try_from(s)
       IN  IF r.some
           THEN /\ fields' = r.value
                /\ pc' = "parsed"
                /\ unparsable' = unparsable
           ELSE /\ fields' = fields
                /\ pc' = "unparsable"
                /\ unparsable' =
                      Some(inner_Unparsable(parse_detached_Unparsable(s), cow))
    /\ UNCHANGED <<buffer, base, owned, tree, stack, pushed, popped, detached,
                   snapshot, last, sr,
                   tree_buffer>>

\* the node ids of the entries of the work stack, bottom first
StackIds(st) == [i \in 1..Len(st) |-> st[i].id]

\* tree.rs:195-216: the root and the top-level fields
BuildTop ==
    /\ pc = "parsed"
    /\ LET r == append_all(Tree_new(Slice(s, 0, 0)), <<>>, Root,
                           fields.fields_struct)
       IN  /\ tree' = r.tree
           /\ stack' = r.stack
           /\ pushed' = pushed \o StackIds(r.stack)
    /\ pc' = "loop"
    /\ UNCHANGED <<buffer, base, owned, fields, popped, detached, unparsable,
                   snapshot, last, sr,
                   tree_buffer>>

\* tree.rs:218-234: one iteration of the work-stack loop
BuildPop ==
    /\ pc = "loop"
    /\ stack # <<>>
    /\ LET top == stack[Len(stack)]
           rest == SubSeq(stack, 1, Len(stack) - 1)
           v == Tree_get(tree, top.id)
       IN  IF ~v.some
           THEN /\ pc' = "panic"
                /\ UNCHANGED <<tree, stack, pushed, popped,
                   tree_buffer>>
           ELSE LET r == append_all(tree, rest, v.value, top.children)
                IN  /\ tree' = r.tree
                    /\ stack' = r.stack
                    /\ popped' = Append(popped, top.id)
                    /\ pushed' = pushed \o
                          StackIds(SubSeq(r.stack, Len(rest) + 1, Len(r.stack)))
                    /\ pc' = "loop"
    /\ UNCHANGED <<buffer, base, owned, fields, detached, unparsable,
                   snapshot, last, sr,
                   tree_buffer>>

\* tree.rs:236-240 and 141: the names become ranges, the tree is attached
\* to the buffer it was parsed from
MapAttach ==
    /\ pc = "loop"
    /\ stack = <<>>
    /\ LET m == map_ranges(tree, s)
       IN  IF \E i \in 1..Len(m) : ~m[i].value.some
           THEN /\ pc' = "panic"
                /\ UNCHANGED <<detached, tree_buffer>>
           ELSE /\ detached' =
                      [tree |-> [i \in 1..Len(m) |->
                                    [m[i] EXCEPT !.value = m[i].value.value]],
                       negation |-> fields.negation]
                /\ tree_buffer' = cow.chars
                /\ pc' = "attached"
    /\ UNCHANGED <<buffer, base, owned, fields, tree, stack, pushed, popped,
                   unparsable, snapshot, last, sr>>

-----------------------------------------------------------------------------
(* The attached tree and its Field cursors.  A Field is the id of its node *)
(* (its buffer is the tree's buffer).                                      *)

Nodes == detached.tree

\* NodeRef::descendants: the node, then its descendants, in pre-order
RECURSIVE descendants(_)
RECURSIVE descendants_of_all(_)

\* descendants in post-order: the node after its descendants
descendants_post_order(id) == descendants_of_all(Nodes[id].children) \o <<id>>

descendants(id) == <<id>> \o descendants_of_all(Nodes[id].children)
descendants_of_all(ids) ==
    IF ids = <<>> THEN <<>>
    ELSE descendants(Head(ids)) \o descendants_of_all(Tail(ids))

\* Field::name
Field_name(f) == StrIndex(tree_buffer, Nodes[f].value)

\* Field::name returns: its slice is within the buffer
name_returns(f) == InBounds(tree_buffer, Nodes[f].value)

\* Field::has_children
Field_has_children(f) == Nodes[f].children # <<>>

\* Field::parent without the filter on the empty range
Field_parent_unfiltered(f) ==
    LET p == Nodes[f].parent
    IN  IF p # 0 THEN Some(p) ELSE None

\* Field::parent: the parent node, unless there is none or its range is empty
Field_parent(f) ==
    LET p == Nodes[f].parent
    IN  IF p # 0 /\ ~StrRange_is_empty(Nodes[p].value) THEN Some(p) ELSE None

\* Field::children
Field_children(f) == Nodes[f].children

\* Field::walk without the field itself
Field_walk_below(f) == descendants_of_all(Nodes[f].children)

\* Field::walk
Field_walk(f) == descendants(f)

\* Field::path without its loop over the parents
path_list_self_only(f) == <<Field_name(f)>>

RECURSIVE path_list(_)
\* the list Field::path builds before it reverses it: the name of the
\* field, then the name of each parent() in turn
path_list(f) ==
    LET parent == Field_parent(f)
    IN  <<Field_name(f)>> \o (IF parent.some THEN path_list(parent.value) ELSE <<>>)

RECURSIVE path_returns(_)
\* Field::path returns: the slice of the field and of each parent() is
\* within the buffer
path_returns(f) ==
    LET parent == Field_parent(f)
    IN  name_returns(f) /\ (parent.some => path_returns(parent.value))

Reverse(seq) == [i \in 1..Len(seq) |-> seq[Len(seq) + 1 - i]]

\* Field::path without the final reverse
Field_path_unreversed(f) == path_list(f)

\* Field::path
Field_path(f) == Reverse(path_list(f))

\* the last matching child in place of the first
find_child_last(node_ref, element) ==
    LET hits == SelectSeq(Nodes[node_ref].children,
                          LAMBDA child : StrIndex(buffer, Nodes[child].value) = element)
    IN  IF hits = <<>> THEN None ELSE Some(hits[Len(hits)])

\* Iterator::find over the children of node_ref
find_child(node_ref, element) ==
    LET hits == SelectSeq(Nodes[node_ref].children,
                            LAMBDA child : StrIndex(buffer, Nodes[child].value) = element)
    IN  IF hits = <<>> THEN None ELSE Some(Head(hits))

RECURSIVE index_from(_, _)
\* the loop of DetachedTree::index from node_ref over the rest of the path
index_from(node_ref, path) ==
    IF path = <<>> THEN Some(node_ref)
    ELSE LET match_ == find_child(node_ref, Head(path))
         IN  IF match_.some THEN index_from(match_.value, Tail(path)) ELSE None

RECURSIVE find_returns(_, _)
\* children().find(..) returns: the slice of every child it compares,
\* up to the first match, is within the buffer
find_returns(ids, element) ==
    \/ ids = <<>>
    \/ /\ name_returns(Head(ids))
       /\ (Field_name(Head(ids)) = element \/ find_returns(Tail(ids), element))

RECURSIVE index_returns(_, _)
\* Tree::index returns: every find on the way does
index_returns(node_ref, path) ==
    \/ path = <<>>
    \/ /\ find_returns(Nodes[node_ref].children, Head(path))
       /\ LET match_ == find_child(node_ref, Head(path))
          IN  match_.some => index_returns(match_.value, Tail(path))

\* Tree::index
Tree_index(path) == index_from(Root, path)

\* Tree::walk without the filter on the empty range
Tree_walk_unfiltered == descendants(Root)

\* Tree::walk
Tree_walk ==
    SelectSeq(descendants(Root), LAMBDA n : ~StrRange_is_empty(Nodes[n].value))

\* Tree::top
Tree_top == Nodes[Root].children

\* Tree::leaves without the filter on has_children
Tree_leaves_unfiltered == Tree_walk

\* Tree::leaves
Tree_leaves == SelectSeq(Tree_walk, LAMBDA f : ~Field_has_children(f))

\* Tree::negation
Tree_negation == detached.negation

-----------------------------------------------------------------------------
(* Calls of the public API on the attached tree.  `last` records the call: *)
(* its argument, and what it returned (out: the Fields returned, in order; *)
(* some: whether an Option was Some; names: the strings returned).  A call *)
(* on a Field takes a Field that the previous call returned.               *)

\* a call of the API leaves everything but `last` as it is
tree_state == <<buffer, base, owned, pc, fields, tree, stack, pushed, popped,
                detached, tree_buffer, unparsable, snapshot, sr>>

PathElems == TreeNames

BoundedPaths == UNION {[1..k -> PathElems] : k \in 0..MaxPathLen}

\* the paths of the documentation and the tests
ExamplePaths == {<<<<"a">>, <<"c">>, <<"d">>>>, <<<<"a">>, <<"d">>>>,
                 <<<<"b","i","o">>, <<"h","e","i","g","h","t">>>>}

\* a path that Field::path returned may be handed to Tree::index
HeldPaths == IF last.op = "path" THEN {last.names} ELSE {}

Paths == BoundedPaths \cup ExamplePaths \cup HeldPaths

SeqSet(seq) == {seq[i] : i \in 1..Len(seq)}

Held == {last.out[i] : i \in 1..Len(last.out)}

OptOut(o) == IF o.some THEN <<o.value>> ELSE <<>>

\* a call that slices the buffer out of its bounds panics
Panic(call) ==
    /\ pc' = "panic"
    /\ last' = call
    /\ UNCHANGED <<buffer, base, owned, fields, tree, stack, pushed, popped,
                   detached, unparsable, snapshot, sr,
                   tree_buffer>>

CallIndex(path) ==
    /\ pc = "attached"
    /\ IF index_returns(Root, path)
       THEN /\ LET r == Tree_index(path)
               IN  last' = [NoCall EXCEPT !.op = "index", !.path = path,
                                          !.some = r.some, !.out = OptOut(r)]
            /\ UNCHANGED tree_state
       ELSE Panic([NoCall EXCEPT !.op = "index", !.path = path])

CallWalk ==
    /\ pc = "attached"
    /\ last' = [NoCall EXCEPT !.op = "walk", !.out = Tree_walk]
    /\ UNCHANGED tree_state

CallTop ==
    /\ pc = "attached"
    /\ last' = [NoCall EXCEPT !.op = "top", !.out = Tree_top]
    /\ UNCHANGED tree_state

CallLeaves ==
    /\ pc = "attached"
    /\ last' = [NoCall EXCEPT !.op = "leaves", !.out = Tree_leaves]
    /\ UNCHANGED tree_state

CallNegation ==
    /\ pc = "attached"
    /\ last' = [NoCall EXCEPT !.op = "negation", !.flag = Tree_negation]
    /\ UNCHANGED tree_state

CallName(f) ==
    /\ pc = "attached"
    /\ IF name_returns(f)
       THEN /\ last' = [NoCall EXCEPT !.op = "name", !.field = f,
                                      !.names = <<Field_name(f)>>]
            /\ UNCHANGED tree_state
       ELSE Panic([NoCall EXCEPT !.op = "name", !.field = f])

CallHasChildren(f) ==
    /\ pc = "attached"
    /\ last' = [NoCall EXCEPT !.op = "has_children", !.field = f,
                              !.flag = Field_has_children(f)]
    /\ UNCHANGED tree_state

CallParent(f) ==
    /\ pc = "attached"
    /\ LET r == Field_parent(f)
       IN  last' = [NoCall EXCEPT !.op = "parent", !.field = f,
                                  !.some = r.some, !.out = OptOut(r)]
    /\ UNCHANGED tree_state

CallChildren(f) ==
    /\ pc = "attached"
    /\ last' = [NoCall EXCEPT !.op = "children", !.field = f,
                              !.out = Field_children(f)]
    /\ UNCHANGED tree_state

CallFieldWalk(f) ==
    /\ pc = "attached"
    /\ last' = [NoCall EXCEPT !.op = "field_walk", !.field = f,
                              !.out = Field_walk(f)]
    /\ UNCHANGED tree_state

CallPath(f) ==
    /\ pc = "attached"
    /\ IF path_returns(f)
       THEN /\ last' = [NoCall EXCEPT !.op = "path", !.field = f,
                                      !.names = Field_path(f)]
            /\ UNCHANGED tree_state
       ELSE Panic([NoCall EXCEPT !.op = "path", !.field = f])

-----------------------------------------------------------------------------
(* detach and attach (tree.rs:44-49, 125-127).  The tree may be attached   *)
(* to any buffer; the Fields of the new Tree are those its walk() yields.  *)

\* Tree::detach: the buffer and the DetachedTree, apart
Tree_detach == [buffer |-> tree_buffer, tree |-> detached]

\* DetachedTree::attach with the negation flag lost
DetachedTree_attach_unnegated(dt, b) ==
    [buffer |-> b, tree |-> [dt EXCEPT !.negation = FALSE]]

\* DetachedTree::attach: the given buffer and the tree, unchecked
DetachedTree_attach(dt, b) == [buffer |-> b, tree |-> dt]

\* what the tree shows before it is detached
Observed ==
    [buffer |-> tree_buffer,
     negation |-> Tree_negation,
     walk |-> Tree_walk,
     names |-> [i \in 1..Len(Tree_walk) |-> Field_name(Tree_walk[i])],
     paths |-> [i \in 1..Len(Tree_walk) |-> Field_path(Tree_walk[i])]]

\* the buffers handed to attach: the one detached, its first half, and a
\* longer text in which every name has moved by one
AttachBuffers(b) == {b, SubSeq(b, 1, Len(b) \div 2), <<"-">> \o b}

Detach ==
    /\ pc = "attached"
    /\ pc' = "detached"
    /\ snapshot' = Observed
    /\ tree_buffer' = Tree_detach.buffer
    /\ detached' = Tree_detach.tree
    /\ last' = [NoCall EXCEPT !.op = "detach"]
    /\ UNCHANGED <<buffer, base, owned, fields, tree, stack, pushed, popped,
                   unparsable, sr>>

Attach(b) ==
    /\ pc = "detached"
    /\ pc' = "reattached"
    /\ LET t == DetachedTree_attach(detached, b)
       IN  /\ tree_buffer' = t.buffer
           /\ detached' = t.tree
    /\ last' = [NoCall EXCEPT !.op = "attach"]
    /\ UNCHANGED <<buffer, base, owned, fields, tree, stack, pushed, popped,
                   unparsable, snapshot, sr>>

\* the Fields of the tree attached again: those its walk() yields
ReattachedFields == IF pc = "reattached" THEN SeqSet(Tree_walk) ELSE {}

ReattachedName(f) ==
    /\ pc = "reattached"
    /\ IF name_returns(f)
       THEN /\ last' = [NoCall EXCEPT !.op = "name", !.field = f,
                                      !.names = <<Field_name(f)>>]
            /\ UNCHANGED tree_state
       ELSE Panic([NoCall EXCEPT !.op = "name", !.field = f])

ReattachedWalk ==
    /\ pc = "reattached"
    /\ last' = [NoCall EXCEPT !.op = "walk", !.out = Tree_walk]
    /\ UNCHANGED tree_state

ReattachedNegation ==
    /\ pc = "reattached"
    /\ last' = [NoCall EXCEPT !.op = "negation", !.flag = Tree_negation]
    /\ UNCHANGED tree_state

Next ==
    \/ ParseFields
    \/ BuildTop
    \/ BuildPop
    \/ MapAttach
    \/ \E path \in Paths : CallIndex(path)
    \/ CallWalk
    \/ CallTop
    \/ CallLeaves
    \/ CallNegation
    \/ \E f \in Held : CallName(f)
    \/ \E f \in Held : CallHasChildren(f)
    \/ \E f \in Held : CallParent(f)
    \/ \E f \in Held : CallChildren(f)
    \/ \E f \in Held : CallFieldWalk(f)
    \/ \E f \in Held : CallPath(f)
    \/ Detach
    \/ \E b \in AttachBuffers(tree_buffer) : Attach(b)
    \/ \E f \in ReattachedFields : ReattachedName(f)
    \/ ReattachedWalk
    \/ ReattachedNegation

Spec == Init /\ [][Next]_vars

\* Tree::parse alone; the loop of parse_detached runs on until its stack
\* is empty, and nothing else can keep the call from going on
NextBuild == ParseFields \/ BuildTop \/ BuildPop \/ MapAttach

\* once the parser has returned, each step of the builder is taken
BuildFairness == WF_vars(BuildTop) /\ WF_vars(BuildPop) /\ WF_vars(MapAttach)

SpecBuild == Init /\ [][NextBuild]_vars /\ BuildFairness

-----------------------------------------------------------------------------
(* StrRange::new on its own: outer and inner are any two slices of one     *)
(* memory, whose text repeats so that equal texts lie at different places. *)

MemBase == 16
Mem == [i \in 1..MemLen |-> IF i % 2 = 1 THEN "a" ELSE "b"]
MemSlices ==
    {Slice(Str(MemBase, Mem), a, b) : a \in 0..MemLen, b \in 0..MemLen}

InitStrRange ==
    /\ sr \in {[NoStrRangeCall EXCEPT !.outer = o, !.inner = i] :
                 o \in MemSlices, i \in MemSlices}
    /\ buffer = <<>>
    /\ base = MemBase
    /\ owned = FALSE
    /\ pc = "str_range"
    /\ fields = NoFields
    /\ tree = <<>>
    /\ stack = <<>>
    /\ pushed = <<>>
    /\ popped = <<>>
    /\ detached = NoTree
    /\ tree_buffer = <<>>
    /\ unparsable = None
    /\ snapshot = NoSnapshot
    /\ last = NoCall

\* StrRange::new(outer, inner)
CallStrRangeNew ==
    /\ pc = "str_range"
    /\ ~sr.called
    /\ sr' = [sr EXCEPT !.called = TRUE,
                        !.result = StrRange_new(sr.outer, sr.inner)]
    /\ UNCHANGED <<buffer, base, owned, pc, fields, tree, stack, pushed,
                   popped, detached, unparsable, snapshot, last,
                   tree_buffer>>

\* &outer[ms.range()], as in test_index
CallStrIndex ==
    /\ pc = "str_range"
    /\ sr.called
    /\ sr.result.some
    /\ IF InBounds(sr.outer.chars, sr.result.value)
       THEN /\ last' = [NoCall EXCEPT
                           !.op = "str_index",
                           !.names = <<StrIndex(sr.outer.chars,
                                                sr.result.value)>>]
            /\ pc' = pc
       ELSE /\ last' = last
            /\ pc' = "panic"
    /\ UNCHANGED <<buffer, base, owned, fields, tree, stack, pushed, popped,
                   detached, unparsable, snapshot, sr,
                   tree_buffer>>

NextStrRange == CallStrRangeNew \/ CallStrIndex

SpecStrRange == InitStrRange /\ [][NextStrRange]_vars

-----------------------------------------------------------------------------
(* The grammar, as a language: a text belongs to a nonterminal when some   *)
(* split of it matches the production.                                     *)

Sub(txt, from, to) == SubSeq(txt, from, to)

\* field_name := (letter | digit | "-" | "_")+
G_field_name(txt) ==
    /\ Len(txt) >= 1
    /\ \A i \in 1..Len(txt) :
          txt[i] \in {"-", "_"} \cup Upper \cup Lower \cup Digit

RECURSIVE G_fields_struct(_)
RECURSIVE G_field_items(_)

\* field := field_name fields_struct | field_name
G_field(txt) ==
    \/ G_field_name(txt)
    \/ \E k \in 1..(Len(txt) - 1) :
          /\ txt[k + 1] = "("
          /\ G_field_name(Sub(txt, 1, k))
          /\ G_fields_struct(Sub(txt, k + 1, Len(txt)))

\* field_items := field ("," field)*
G_field_items(txt) ==
    \/ G_field(txt)
    \/ \E k \in 2..(Len(txt) - 1) :
          /\ txt[k] = ","
          /\ G_field(Sub(txt, 1, k - 1))
          /\ G_field_items(Sub(txt, k + 1, Len(txt)))

\* fields_struct := "(" field_items ")"
G_fields_struct(txt) ==
    /\ Len(txt) >= 3
    /\ txt[1] = "("
    /\ txt[Len(txt)] = ")"
    /\ G_field_items(Sub(txt, 2, Len(txt) - 1))

\* fields := ["-"] fields_struct
G_fields(txt) ==
    \/ G_fields_struct(txt)
    \/ Len(txt) >= 1 /\ txt[1] = "-" /\ G_fields_struct(Tail(txt))

ParseDone == pc \notin {"start"}
ParseFailed == pc = "unparsable"

-----------------------------------------------------------------------------
(* Claims *)

C3_BangNegates ==
    (ParseDone /\ Len(buffer) >= 1 /\ buffer[1] = "!"
        /\ G_fields_struct(Tail(buffer))) =>
            /\ ~ParseFailed
            /\ pc = "attached" => Tree_negation

-----------------------------------------------------------------------------
(* The tree and the source text, for the claims *)

Fields_ == 2..Len(Nodes)

\* the position of x in seq (0 when absent)
Pos(seq, x) ==
    IF \E i \in 1..Len(seq) : seq[i] = x
    THEN CHOOSE i \in 1..Len(seq) : seq[i] = x
    ELSE 0

NoDuplicates(seq) == \A i, j \in 1..Len(seq) : seq[i] = seq[j] => i = j

RECURSIVE Depth(_)
\* the number of parent links from node n up to the root
Depth(n) == IF Nodes[n].parent = 0 THEN 0 ELSE 1 + Depth(Nodes[n].parent)

RECURSIVE IsAncestor(_, _)
\* a is a proper ancestor of n
IsAncestor(a, n) ==
    /\ Nodes[n].parent # 0
    /\ (Nodes[n].parent = a \/ IsAncestor(a, Nodes[n].parent))

\* the number of "(" less the number of ")" among the first i characters
ParenDepth(i) ==
    Cardinality({k \in 1..i : buffer[k] = "("})
      - Cardinality({k \in 1..i : buffer[k] = ")"})

\* the nesting level of the name of node n in the text: 1 at the top level
Level(n) == ParenDepth(Nodes[n].value.start)

\* the position (from 1) of the "(" that opens the fields_struct in which
\* the name of node n stands
Opener(n) ==
    LET before == {i \in 1..Nodes[n].value.start :
                      buffer[i] = "(" /\ ParenDepth(i) = Level(n)}
    IN  IF before = {} THEN 0
        ELSE CHOOSE i \in before : \A j \in before : j <= i

\* node p is the field whose fields_struct directly contains node n
DirectlyContains(p, n) ==
    p \in Fields_ /\ Opener(n) = Nodes[p].value.end + 1

Increasing(seq) ==
    \A i \in 1..(Len(seq) - 1) :
        Nodes[seq[i]].value.start < Nodes[seq[i + 1]].value.start

-----------------------------------------------------------------------------

\* C4 (as claimed): for every Field f yielded by walk(), index(&f.path())
\* is Some field with the name of f, also when siblings share a name.
C4_PathIndexRoundTrip ==
    (pc = "attached" /\ last.op = "index") =>
        \A f \in SeqSet(Tree_walk) :
            Field_path(f) = last.path =>
                /\ last.some
                /\ Len(last.out) = 1
                /\ Field_name(last.out[1]) = Field_name(f)

\* no earlier sibling of node n has the name of n
FirstOfName(n) ==
    LET kids == Nodes[Nodes[n].parent].children
    IN  \A i \in 1..(Pos(kids, n) - 1) :
            StrIndex(buffer, Nodes[kids[i]].value) # StrIndex(buffer, Nodes[n].value)

\* C4 (amended): for every Field f yielded by walk(), index(&f.path()) is
\* never a field of another name; and when neither f nor an ancestor of f
\* has an earlier sibling of the same name, it is Some(f).
C4_RoundTripFirstOfName ==
    (pc = "attached" /\ last.op = "index") =>
        \A f \in SeqSet(Tree_walk) :
            Field_path(f) = last.path =>
                /\ last.some => Field_name(last.out[1]) = Field_name(f)
                /\ (\A a \in Fields_ : (a = f \/ IsAncestor(a, f)) => FirstOfName(a))
                      => last.some /\ last.out = <<f>>

\* the path of a nested field was looked up, in a tree where a later
\* sibling of that field has its name
C4_Witness ==
    /\ pc = "attached" /\ last.op = "index" /\ last.some
    /\ Len(last.path) >= 2
    /\ \E f \in SeqSet(Tree_walk) :
          /\ Field_path(f) = last.path
          /\ last.out = <<f>>
          /\ \E n \in Fields_ :
                /\ n # f
                /\ Nodes[n].parent = Nodes[f].parent
                /\ Field_name(n) = Field_name(f)

\* C5: every Field returned by a public operation (index for any path, the
\* empty path included, walk, top, leaves, parent, children, Field::walk)
\* is a non-root node and has a non-empty name.
C5_RootNeverSurfaced ==
    pc = "attached" =>
        \A f \in Held : f # Root /\ Field_name(f) # <<>>

Example_nested_paths ==
    << <<<<"n","a","m","e">>>>,
       <<<<"b","i","o">>>>,
       <<<<"b","i","o">>, <<"h","e","i","g","h","t">>>>,
       <<<<"b","i","o">>, <<"h","e","i","g","h","t">>, <<"m","e","t","e","r","s">>>>,
       <<<<"b","i","o">>, <<"h","e","i","g","h","t">>, <<"c","e","n","t","i","m","e","t","e","r","s">>>>,
       <<<<"b","i","o">>, <<"a","g","e">>>> >>

\* C6: walk() yields every non-root node exactly once, each node before its
\* descendants and after nothing but them and what precedes it (pre-order),
\* siblings left to right; the nested example gives the documented paths.
C6_WalkPreOrder ==
    (pc = "attached" /\ last.op = "walk") =>
        LET w == last.out
        IN  /\ SeqSet(w) = Fields_
            /\ NoDuplicates(w)
            /\ \A i, j \in 1..Len(w) : i < j => ~IsAncestor(w[j], w[i])
            /\ \A i, j, k \in 1..Len(w) :
                  (i < j /\ j < k /\ IsAncestor(w[i], w[k]))
                      => IsAncestor(w[i], w[j])
            /\ \A i, j \in 1..Len(w) :
                  (i < j /\ Nodes[w[i]].parent = Nodes[w[j]].parent)
                      => Pos(Nodes[Nodes[w[i]].parent].children, w[i])
                           < Pos(Nodes[Nodes[w[j]].parent].children, w[j])
            /\ buffer = Example_nested =>
                  [i \in 1..Len(w) |-> Field_path(w[i])] = Example_nested_paths

C6_Witness ==
    pc = "attached" /\ last.op = "walk" /\ buffer = Example_nested

\* C7: top() yields the top-level fields and children() the direct
\* sub-fields of a field, in the left-to-right order of the source text.
C7_SourceOrder ==
    /\ (pc = "attached" /\ last.op = "top") =>
          /\ SeqSet(last.out) = {n \in Fields_ : Level(n) = 1}
          /\ NoDuplicates(last.out)
          /\ Increasing(last.out)
    /\ (pc = "attached" /\ last.op = "children") =>
          /\ SeqSet(last.out) =
                {n \in Fields_ : IF last.field = Root THEN Level(n) = 1
                                 ELSE DirectlyContains(last.field, n)}
          /\ NoDuplicates(last.out)
          /\ Increasing(last.out)

\* children() of a field whose children were appended after a field that
\* stands later in the text (the work stack is last-in first-out)
C7_Witness ==
    /\ pc = "attached" /\ last.op = "children" /\ last.field # Root
    /\ Len(last.out) >= 2
    /\ \E n \in Fields_ :
          /\ n < last.out[1]
          /\ Nodes[n].value.start > Nodes[last.out[2]].value.start

\* C8: for every Field f from walk(): parent() is None when f is top-level,
\* and otherwise Some(p) with p the field whose fields_struct directly
\* contains f and p.children() containing f; parent() is None exactly when
\* the tree parent of the node is the root.
C8_Parent ==
    (pc = "attached" /\ last.op = "parent" /\ last.field \in SeqSet(Tree_walk)) =>
        LET f == last.field
        IN  /\ ~last.some <=> Nodes[f].parent = Root
            /\ ~last.some <=> f \in SeqSet(Tree_top)
            /\ ~last.some <=> Level(f) = 1
            /\ last.some =>
                  /\ Len(last.out) = 1
                  /\ DirectlyContains(last.out[1], f)
                  /\ f \in SeqSet(Field_children(last.out[1]))

C8_Witness ==
    /\ pc = "attached" /\ last.op = "parent" /\ last.some
    /\ last.field \in SeqSet(Tree_walk)
    /\ Depth(last.field) >= 3

\* in the order of insertion, c is the first child of p that has this name
FirstNamed(p, c, name) ==
    LET kids == Nodes[p].children
    IN  /\ Pos(kids, c) > 0
        /\ Field_name(c) = name
        /\ \A i \in 1..(Pos(kids, c) - 1) : Field_name(kids[i]) # name

RECURSIVE Reaches(_, _)
\* node n is what the path leads to from the root: at every step down to
\* n, the first child of that name was taken
Reaches(n, path) ==
    IF path = <<>> THEN n = Root
    ELSE /\ Nodes[n].parent # 0
         /\ FirstNamed(Nodes[n].parent, n, path[Len(path)])
         /\ Reaches(Nodes[n].parent, SubSeq(path, 1, Len(path) - 1))

\* C9: index(path) moves at each step to the first child, in insertion
\* order, that has the next name; it is None when a step has no such child
\* and otherwise Some field named by the last element.  For "(a(b,c(d)),e)"
\* index([a,c,d]) is the field d and index([a,d]) is None.
C9_IndexFirstMatch ==
    (pc = "attached" /\ last.op = "index") =>
        /\ last.some <=> \E n \in 1..Len(Nodes) : Reaches(n, last.path)
        /\ last.some =>
              /\ Len(last.out) = 1
              /\ Reaches(last.out[1], last.path)
              /\ last.path # <<>> =>
                    Field_name(last.out[1]) = last.path[Len(last.path)]
        /\ (buffer = Example_index /\ last.path = <<<<"a">>, <<"c">>, <<"d">>>>)
              => last.some /\ Field_name(last.out[1]) = <<"d">>
        /\ (buffer = Example_index /\ last.path = <<<<"a">>, <<"d">>>>)
              => ~last.some

\* a path that names two siblings: the first one was returned
C9_Witness ==
    /\ pc = "attached" /\ last.op = "index" /\ last.some
    /\ Len(last.path) >= 1
    /\ \E n \in Fields_ :
          /\ n # last.out[1]
          /\ Nodes[n].parent = Nodes[last.out[1]].parent
          /\ Field_name(n) = Field_name(last.out[1])

RECURSIVE AncestorAt(_, _)
\* the ancestor of n (or n itself) that is d levels below the root
AncestorAt(n, d) == IF Depth(n) <= d THEN n ELSE AncestorAt(Nodes[n].parent, d)

\* C10: f.path() is the names of the ancestors of f from the top-level one
\* down to f: as long as f is deep, ending in f.name(), and without its
\* last element the path of f.parent() (empty for a top-level field).
C10_PathIsAncestorNames ==
    (pc = "attached" /\ last.op = "path" /\ last.field \in Fields_) =>
        LET f == last.field
            p == last.names
        IN  /\ Len(p) = Depth(f)
            /\ Len(p) >= 1
            /\ p[Len(p)] = Field_name(f)
            /\ \A d \in 1..Len(p) : p[d] = Field_name(AncestorAt(f, d))
            /\ SubSeq(p, 1, Len(p) - 1) =
                  (IF Field_parent(f).some
                   THEN Field_path(Field_parent(f).value) ELSE <<>>)

C10_Witness ==
    /\ pc = "attached" /\ last.op = "path" /\ last.field \in Fields_
    /\ Len(last.names) >= 3
    /\ last.names[1] # last.names[2]

\* the name of node n is directly followed by "(" in the source text
OpensStruct(n) ==
    /\ Nodes[n].value.end < Len(buffer)
    /\ buffer[Nodes[n].value.end + 1] = "("

Example_leaves_names ==
    << <<"c","h","i","l","d","_","1">>,
       <<"c","h","i","l","d","_","2">>,
       <<"c","h","i","l","d","_","3">> >>

\* C11: leaves() yields exactly the fields of walk() that have no children
\* (in the text: the names not followed by "("), each once, in the order
\* of walk(); the documented example gives child_1, child_2, child_3.
C11_LeavesAreChildless ==
    (pc = "attached" /\ last.op = "leaves") =>
        LET l == last.out
            w == Tree_walk
        IN  /\ \A f \in Fields_ :
                  (f \in SeqSet(l)) <=>
                      (f \in SeqSet(w) /\ ~Field_has_children(f))
            /\ \A f \in Fields_ : (f \in SeqSet(l)) <=> ~OpensStruct(f)
            /\ SeqSet(l) \subseteq Fields_
            /\ NoDuplicates(l)
            /\ \A i, j \in 1..Len(l) : i < j => Pos(w, l[i]) < Pos(w, l[j])
            /\ buffer = Example_leaves =>
                  [i \in 1..Len(l) |-> Field_name(l[i])] = Example_leaves_names

C11_Witness ==
    pc = "attached" /\ last.op = "leaves" /\ buffer = Example_leaves

\* C12: whenever Tree::parse fails, the buffer of the Unparsable it returns
\* is the caller's input: the same text, and owned when the input was owned
\* (no error is returned when parse succeeds).
C12_UnparsableKeepsBuffer ==
    /\ ParseFailed =>
          /\ unparsable.some
          /\ unparsable.value.buffer.chars = buffer
          /\ unparsable.value.buffer.owned = owned
    /\ ~ParseFailed => ~unparsable.some

C12_Witness ==
    ParseFailed /\ owned /\ buffer = <<"(","a",",",")">> /\ unparsable.some

\* the characters of a field name, one by one
NameAlphabet ==
    {"a","b","c","d","e","f","g","h","i","j","k","l","m",
     "n","o","p","q","r","s","t","u","v","w","x","y","z",
     "A","B","C","D","E","F","G","H","I","J","K","L","M",
     "N","O","P","Q","R","S","T","U","V","W","X","Y","Z",
     "0","1","2","3","4","5","6","7","8","9","_","-"}

IsName(txt) == txt # <<>> /\ \A i \in 1..Len(txt) : txt[i] \in NameAlphabet

\* C13: an input with a character that is neither of the name alphabet
\* [A-Za-z0-9_-] nor one of ( , ) does not parse; every name of a parsed
\* tree, as name() returns it, is non-empty and over the name alphabet.
C13_NameAlphabet ==
    /\ (ParseDone /\ \E i \in 1..Len(buffer) :
                        buffer[i] \notin NameAlphabet \cup {"(", ",", ")"})
          => ParseFailed
    /\ pc = "attached" => \A f \in Fields_ : IsName(Field_name(f))
    /\ (pc = "attached" /\ last.op = "name" /\ last.field \in Fields_)
          => IsName(last.names[1])

C13_Witness ==
    /\ pc = "attached"
    /\ last.op = "name"
    /\ buffer = Test_valid_name
    /\ Len(last.names[1]) = 64

\* the tree was detached and is attached to another buffer than its own
Misattached == snapshot # NoSnapshot /\ tree_buffer # snapshot.buffer

\* C14: Tree::parse and the accessors never panic: every node id on the
\* work stack is the id of a node, every name in the tree being built (the
\* root's empty slice included) lies in the memory of the buffer, so that
\* StrRange::new is Some, and every range of a parsed tree is within the
\* bounds of the buffer, so that name(), path() and index() return.
C14_NoPanic ==
    /\ pc = "panic" => Misattached
    /\ pc = "loop" =>
          /\ \A i \in 1..Len(stack) : stack[i].id \in 1..Len(tree)
          /\ \A n \in 1..Len(tree) :
                LET off == tree[n].value.ptr - base
                IN  /\ 0 <= off
                    /\ off + Len(tree[n].value.chars) <= Len(buffer)
                    /\ tree[n].value.chars =
                          SubSeq(buffer, off + 1, off + Len(tree[n].value.chars))
    /\ pc = "attached" =>
          \A n \in 1..Len(Nodes) :
              /\ 0 <= Nodes[n].value.start
              /\ Nodes[n].value.start <= Nodes[n].value.end
              /\ Nodes[n].value.end <= Len(buffer)

C14_Witness ==
    /\ pc = "attached"
    /\ buffer = Example_nested
    /\ last.op = "path"
    /\ last.names = <<<<"b","i","o">>, <<"h","e","i","g","h","t">>,
                      <<"c","e","n","t","i","m","e","t","e","r","s">>>>

\* C15: StrRange::new(outer, inner) is Some exactly when the bytes of inner
\* lie within those of outer (inner_begin >= outer_begin and inner_end <=
\* outer_end); then start = inner_begin - outer_begin, end = start +
\* len(inner), start <= end <= len(outer), and outer[start..end] is the
\* text of inner.  An inner that lies elsewhere gives None, also when its
\* text occurs in outer.
C15_StrRangeWithin ==
    sr.called =>
        LET outer_begin == sr.outer.ptr
            outer_end == sr.outer.ptr + Len(sr.outer.chars)
            inner_begin == sr.inner.ptr
            inner_end == sr.inner.ptr + Len(sr.inner.chars)
            within == inner_begin >= outer_begin /\ inner_end <= outer_end
            r == sr.result.value
        IN  /\ sr.result.some <=> within
            /\ sr.result.some =>
                  /\ r.start = inner_begin - outer_begin
                  /\ r.end = r.start + Len(sr.inner.chars)
                  /\ r.start <= r.end
                  /\ r.end <= Len(sr.outer.chars)
            /\ pc # "panic"
            /\ last.op = "str_index" => last.names[1] = sr.inner.chars

\* an inner whose text occurs in outer but which lies outside it
C15_Witness ==
    /\ sr.called
    /\ ~sr.result.some
    /\ sr.inner.chars # <<>>
    /\ Occurrences(sr.outer, sr.inner) # {}

\* C16: in every parsed tree the root holds the range [0, 0) and every
\* other node a non-empty range; every range has start <= end <= the
\* length of the buffer; so a range is empty exactly at the root, which is
\* what walk() and parent() test to leave the root out.
C16_RangeEmptyIffRoot ==
    pc = "attached" =>
        /\ Nodes[Root].value = [start |-> 0, end |-> 0]
        /\ \A n \in 1..Len(Nodes) :
              /\ Nodes[n].value.start <= Nodes[n].value.end
              /\ Nodes[n].value.end <= Len(buffer)
              /\ n # Root => Nodes[n].value.start < Nodes[n].value.end
              /\ StrRange_is_empty(Nodes[n].value) <=> n = Root
              /\ Nodes[n].parent = 0 <=> n = Root
        /\ (last.op = "parent" /\ ~last.some /\ last.field # Root)
              => Nodes[last.field].parent = Root

C16_Witness ==
    /\ pc = "attached"
    /\ Len(Nodes) = MaxNodes + 1
    /\ last.op = "parent"
    /\ ~last.some
    /\ Nodes[last.field].parent = Root

RECURSIVE CountSubstructs(_)
\* the number of fields with a fields_struct in a list of AST items
CountSubstructs(items) ==
    IF items = <<>> THEN 0
    ELSE (IF Head(items).kind = "FieldsSubstruct"
          THEN 1 + CountSubstructs(Head(items).fields_struct) ELSE 0)
         + CountSubstructs(Tail(items))

RECURSIVE CountItems(_)
\* the number of fields in a list of AST items
CountItems(items) ==
    IF items = <<>> THEN 0
    ELSE 1 + CountItems(Head(items).fields_struct) + CountItems(Tail(items))

RECURSIVE ItemsOf(_)
\* the AST items that the nodes ids of the tree under construction stand
\* for, with their sub-trees
ItemsOf(ids) ==
    [i \in 1..Len(ids) |->
        IF tree[ids[i]].children = <<>>
        THEN MkFieldName(tree[ids[i]].value)
        ELSE MkFieldsSubstruct(tree[ids[i]].value,
                               ItemsOf(tree[ids[i]].children))]

\* what holds of the work stack while and after the loop runs
WorklistInvariant ==
    /\ pc \in {"loop", "attached"} =>
          /\ NoDuplicates(pushed)
          /\ NoDuplicates(popped)
          /\ NoDuplicates(StackIds(stack))
          /\ SeqSet(popped) \subseteq SeqSet(pushed)
          /\ SeqSet(StackIds(stack)) = SeqSet(pushed) \ SeqSet(popped)
          /\ Len(stack) <= CountSubstructs(fields.fields_struct)
          /\ Len(pushed) <= CountSubstructs(fields.fields_struct)
          /\ Len(tree) - 1 <= CountItems(fields.fields_struct)
    /\ pc = "attached" =>
          /\ stack = <<>>
          /\ Len(pushed) = CountSubstructs(fields.fields_struct)
          /\ SeqSet(popped) = SeqSet(pushed)
          /\ SeqSet(pushed) = {n \in 1..Len(tree) :
                                  n # Root /\ tree[n].children # <<>>}
          /\ Len(tree) - 1 = CountItems(fields.fields_struct)
          /\ ItemsOf(tree[Root].children) = fields.fields_struct

\* C17: the work-stack loop of parse_detached ends, for every AST, with an
\* empty stack: every field with children is pushed once and popped once,
\* every AST item is appended once, under the node of its enclosing
\* field, and the stack never holds more entries than the AST has fields
\* with children.
C17_WorklistTerminates ==
    /\ []WorklistInvariant
    /\ (pc = "parsed") ~> (pc = "attached" /\ stack = <<>>)

C17_Witness ==
    /\ pc = "attached"
    /\ stack = <<>>
    /\ Len(popped) = 2
    /\ buffer = Example_nested

\* the nodes of the tree whose parent link is node f
ChildrenOf(f) == {n \in 1..Len(Nodes) : Nodes[n].parent = f}

\* C18: f.walk() yields f first, then every descendant of f and nothing
\* else, each once, a node before its descendants, sub-trees unbroken and
\* in source order; f.children() yields exactly the nodes whose parent is
\* f, in source order; f.has_children() is true iff there is such a node.
C18_FieldWalkChildren ==
    /\ (pc = "attached" /\ last.op = "field_walk") =>
          LET w == last.out
              f == last.field
          IN  /\ Len(w) >= 1
              /\ w[1] = f
              /\ SeqSet(w) = {f} \cup {n \in 1..Len(Nodes) : IsAncestor(f, n)}
              /\ NoDuplicates(w)
              /\ \A i, j \in 1..Len(w) : i < j => ~IsAncestor(w[j], w[i])
              /\ \A i, j, k \in 1..Len(w) :
                    (i < j /\ j < k /\ IsAncestor(w[i], w[k]))
                        => IsAncestor(w[i], w[j])
              /\ Increasing(w)
    /\ (pc = "attached" /\ last.op = "children") =>
          /\ SeqSet(last.out) = ChildrenOf(last.field)
          /\ NoDuplicates(last.out)
          /\ Increasing(last.out)
    /\ (pc = "attached" /\ last.op = "has_children") =>
          /\ last.flag <=> ChildrenOf(last.field) # {}
          /\ last.flag <=> Field_children(last.field) # <<>>
          /\ last.field # Root => (last.flag <=> OpensStruct(last.field))

C18_Witness ==
    /\ pc = "attached"
    /\ buffer = Test_field_walk
    /\ last.op = "field_walk"
    /\ [i \in 1..Len(last.out) |-> Field_name(last.out[i])]
          = <<<<"a">>, <<"b">>, <<"c">>>>

\* C19: attach checks nothing.  On a tree attached to a buffer B, name() of
\* a node with range [s, e) returns B[s..e) when e <= len(B), whatever
\* text that is, and panics when e > len(B); a tree attached again to the
\* buffer it was detached from shows the same negation, walk order, names
\* and paths as before.
C19_AttachUnchecked ==
    /\ (pc = "reattached" /\ last.op = "name") =>
          LET r == Nodes[last.field].value
          IN  /\ r.end <= Len(tree_buffer)
              /\ last.names[1] =
                    [i \in 1..(r.end - r.start) |-> tree_buffer[r.start + i]]
    /\ (pc = "panic" /\ snapshot # NoSnapshot) =>
          /\ last.op = "name"
          /\ Nodes[last.field].value.end > Len(tree_buffer)
    /\ (pc = "reattached" /\ tree_buffer = snapshot.buffer) =>
          /\ tree_buffer = buffer
          /\ Observed = snapshot
          /\ last.op = "negation" => last.flag = snapshot.negation
          /\ last.op = "walk" => last.out = snapshot.walk
          /\ last.op = "name" =>
                last.names[1] = snapshot.names[Pos(snapshot.walk, last.field)]

\* name() returns a text that is not the name that was parsed
C19_Witness ==
    /\ pc = "reattached"
    /\ last.op = "name"
    /\ tree_buffer # snapshot.buffer
    /\ last.names[1] # snapshot.names[Pos(snapshot.walk, last.field)]

\* C20: the ranges of two distinct nodes neither overlap nor touch; walk()
\* yields the fields by strictly increasing start of range, that is in
\* the order of the source text; the character before the name of a field
\* is "(" or "," and the character after it is "(", "," or ")".
C20_RangesInSourceOrder ==
    pc = "attached" =>
        /\ \A n, m \in 1..Len(Nodes) :
              n # m => \/ Nodes[n].value.end < Nodes[m].value.start
                       \/ Nodes[m].value.end < Nodes[n].value.start
        /\ last.op = "walk" =>
              \A i, j \in 1..Len(last.out) :
                  i < j => Nodes[last.out[i]].value.start
                             < Nodes[last.out[j]].value.start
        /\ \A f \in Fields_ :
              /\ Nodes[f].value.start >= 1
              /\ buffer[Nodes[f].value.start] \in {"(", ","}
              /\ Nodes[f].value.end < Len(buffer)
              /\ buffer[Nodes[f].value.end + 1] \in {"(", ",", ")"}

C20_Witness ==
    /\ pc = "attached"
    /\ buffer = Example_index
    /\ last.op = "walk"
    /\ Len(last.out) = 5

RECURSIVE Serialize_fields(_)
\* the fields fs printed: each as its name(), followed when it
\* has_children() by its children() printed between "(" and ")"; joined
\* by ","
Serialize_fields(fs) ==
    LET f == Head(fs)
        one == Field_name(f)
                 \o (IF Field_has_children(f)
                     THEN <<"(">> \o Serialize_fields(Field_children(f))
                            \o <<")">>
                     ELSE <<>>)
    IN  IF fs = <<>> THEN <<>>
        ELSE IF Len(fs) = 1 THEN one
        ELSE one \o <<",">> \o Serialize_fields(Tail(fs))

\* the tree printed: "-" if negation(), then the top() fields in "(" ")"
Serialize ==
    (IF Tree_negation THEN <<"-">> ELSE <<>>)
      \o <<"(">> \o Serialize_fields(Tree_top) \o <<")">>

RECURSIVE Shape(_)
\* the names and the nesting of the fields fs, without buffer or ranges
Shape(fs) ==
    [i \in 1..Len(fs) |->
        [name |-> Field_name(fs[i]), items |-> Shape(Field_children(fs[i]))]]

\* the positions of the input at which a field name begins
NameStarts ==
    {i \in 2..Len(buffer) :
        buffer[i] \in NameAlphabet /\ buffer[i - 1] \in {"(", ","}}

\* C21: parsing loses nothing: the parsed tree printed again ("-" if
\* negation(), the fields as name(children) joined by ",") is the input,
\* character for character; the text is a function of the negation, the
\* shape and the names alone, so equal trees come from equal inputs; and
\* walk() yields as many fields as the input has field names.
C21_SerializeRoundTrip ==
    pc = "attached" =>
        /\ Serialize = buffer
        /\ (IF Tree_negation THEN <<"-">> ELSE <<>>)
             \o <<"(">> \o UnparseItems(Shape(Tree_top)) \o <<")">> = buffer
        /\ Len(Tree_walk) = Cardinality(NameStarts)
        /\ last.op = "walk" => Len(last.out) = Cardinality(NameStarts)

C21_Witness ==
    /\ pc = "attached"
    /\ last.op = "walk"
    /\ buffer = Example_leaves
    /\ Serialize = Example_leaves
    /\ Len(last.out) = 5

=============================================================================
